---- MODULE Spec2Model ----
(***************************************************************************)
(* NariKawach: the trip / risk state machine of the Home view              *)
(* (frontend/src/pages/Home.tsx), the Emergency view                       *)
(* (frontend/src/pages/Emergency.tsx) and the hosted store they call.      *)
(*                                                                         *)
(* Every handler of the views is an async function: it runs synchronously  *)
(* up to its next await, the awaited store call is executed by the store   *)
(* at some later moment, and the continuation runs when the response       *)
(* arrives.  An in-flight handler is an element of the bag ops: which      *)
(* handler it is, where it stands (pc), the values its closure captured    *)
(* when it was invoked, and the data of the last response.  A handler      *)
(* whose component has been unmounted keeps running (its store calls still *)
(* happen) but its setState calls no longer change anything (live = FALSE).*)
(***************************************************************************)
EXTENDS Integers, Sequences, FiniteSets, Bags, TLC

\* ---------------------------------------------------------------- bounds
MaxTrips == 2      \* rows the trips table may hold
MaxOps   == 2      \* async handlers in flight at once
MaxGuardians == 2  \* rows the guardians table may hold for the user
MaxFetches   == 2  \* fetchGuardians calls in flight at once
MaxPositions == 3  \* position updates a LocationMap receives

TripIds  == 1..MaxTrips
NoId     == 0      \* currentTripId = null

RiskLevel    == {"low", "medium", "high"}

\* the simulation interval, setInterval(..., 3000), in time units of 1000 ms
SimPeriod  == 3
NoInterval == 0 - 1

\* const steps: RiskLevel[] = ["low", "medium", "high"] (steps[k] is Steps[k+1])
Steps == <<"low", "medium", "high">>
SafetyStatus == {"safe", "monitoring", "emergency"}

VARIABLES
  \* ---- the store (hosted tables)
  trips,            \* trips[i] = [status, end_risk_level] of row i
  risk_status,      \* the user's risk_status row: [risk_level, reason]
  \* ---- the router and the build
  view,             \* which page is mounted: "home", "emergency", "other"
  emergencyVariant, \* which handleReturnHome the Emergency page has
  \* ---- Home component state (useState)
  isTripActive,
  currentTripId,
  riskLevel,
  safetyStatus,
  loading,
  endTripDialogOpen,
  panicDialogOpen,
  isDemoMode,
  \* ---- async handlers in flight
  ops,
  \* ---- history: the handler whose setRiskLevel call wrote riskLevel last
  riskSetBy,
  \* ---- history: the user has used a control of Home since it mounted
  userActed,
  \* ---- DemoModePanel component state (useState) and its interval
  isAutoSimulating,
  simulationStep,
  intervalLeft,     \* time units until the interval fires; NoInterval: none set
  liveIntervals,    \* how many intervals the panel has set and not cleared
  \* ---- history: what the simulator did last, and the time units since the
  \* ---- simulator last issued a risk change
  simLog,
  sinceUpdate,
  \* ---- the store: how many guardians rows the user has
  guardians,
  \* ---- Emergency component state (useState) and its fetches in flight
  emLoading,
  emGuardians,      \* how many guardians the page holds in its list
  guardianFetches,
  \* ---- LocationMap: its isTracking prop, the browser, component state
  mapMounted,
  isTracking,
  geolocation,      \* navigator.geolocation: "unread", "present" or "absent"
  watches,          \* geolocation watches started and not cleared
  location,         \* a position has been received (location is not null)
  error,            \* the error text, "none" for null
  permissionDenied,
  risk,             \* risk_level of the risk result held, "none" for null
  riskRequests,     \* calculateRisk calls in flight: the position update each is for
  \* ---- history: position updates received, and the update whose response
  \* ---- is the risk result held
  positions,
  riskFrom,
  \* ---- sign-in: the auth client's session, the nk_user entry of
  \* ---- localStorage, and the page the router shows
  session,
  nk_user,
  route,
  \* ---- history: a sign-in succeeded and no logout followed it
  authenticated,
  \* ---- Settings component state (useState), its handler in flight, and
  \* ---- the title of the toast shown last
  stLoading,
  stGuardians,      \* how many guardians the page holds in its list
  stOp,
  toastTitle

storeVars == <<trips, risk_status>>
stateVars == <<isTripActive, currentTripId, riskLevel, safetyStatus, loading,
               endTripDialogOpen, panicDialogOpen, isDemoMode, riskSetBy,
               userActed>>
simVars   == <<isAutoSimulating, simulationStep, intervalLeft, liveIntervals,
               simLog, sinceUpdate>>
homeVars  == <<stateVars, simVars>>
emVars    == <<emLoading, emGuardians, guardianFetches>>
mapVars   == <<mapMounted, isTracking, geolocation, watches, location, error,
               permissionDenied, risk, riskRequests, positions, riskFrom>>
authVars  == <<session, nk_user, route, authenticated>>
settingsVars == <<stLoading, stGuardians, stOp, toastTitle>>
otherVars == <<mapVars, authVars, settingsVars>>
appVars   == <<storeVars, view, emergencyVariant, guardians, emVars, homeVars,
               ops, authVars, settingsVars>>
restVars  == <<storeVars, view, emergencyVariant, emVars, homeVars, ops,
               mapVars>>
vars      == <<trips, risk_status, view, emergencyVariant, isTripActive,
               currentTripId, riskLevel, safetyStatus, loading,
               endTripDialogOpen, panicDialogOpen, isDemoMode, ops, riskSetBy,
               userActed,
               isAutoSimulating, simulationStep, intervalLeft, liveIntervals,
               simLog, sinceUpdate,
               guardians, emLoading, emGuardians, guardianFetches,
               mapMounted, isTracking, geolocation, watches, location, error,
               permissionDenied, risk, riskRequests, positions, riskFrom,
               session, nk_user, route, authenticated,
               stLoading, stGuardians, stOp, toastTitle>>

\* what Home renders from: a setState that changes none of it renders nothing
Rendered == <<isTripActive, currentTripId, riskLevel, safetyStatus, loading,
              endTripDialogOpen, panicDialogOpen, isDemoMode>>

\* no Settings handler in flight
NoOp == [kind |-> "none", pc |-> "none", ok |-> TRUE, seen |-> 0,
         live |-> FALSE, synced |-> FALSE]

\* ------------------------------------------------------------ store helpers
NoRow == [status |-> "none", end_risk_level |-> "none"]

NoRisk == [risk_level |-> "none", reason |-> "none"]

NumRows == Cardinality({i \in TripIds : trips[i].status # "none"})

ActiveRows == {i \in TripIds : trips[i].status = "active"}

\* .eq("status","active").maybeSingle(): the row when exactly one matches,
\* null when none matches, and null (with an error) when several match.
MaybeSingleActive ==
  IF Cardinality(ActiveRows) = 1 THEN CHOOSE i \in ActiveRows : TRUE ELSE NoId

\* insert({status: "active"}).select().single(): a fresh row, its id returned.
NewTripId == NumRows + 1

InsertTrip == [trips EXCEPT ![NewTripId] = [status |-> "active", end_risk_level |-> "none"]]

\* update(...).eq("id", id): changes the row with that id, whatever its status.
UpdateTripCompleted(id, level) ==
  IF id \in TripIds /\ trips[id].status # "none"
  THEN [trips EXCEPT ![id] = [status |-> "completed", end_risk_level |-> level]]
  ELSE trips

\* risk_status.update(...).eq("user_id", u): changes the row if there is one.
UpdateRisk(level, reason) ==
  IF risk_status.risk_level = "none" THEN risk_status
  ELSE [risk_level |-> level, reason |-> reason]

\* risk_status.insert(...): user_id is UNIQUE, a second insert is rejected.
InsertRisk(level, reason) ==
  IF risk_status.risk_level = "none" THEN [risk_level |-> level, reason |-> reason]
  ELSE risk_status

\* ------------------------------------------------------------- op helpers
\* (prePanic is history: a fetchRiskStatus that was already in flight when a
\* triggerPanic was invoked; e1 and e2 are history: the handler's first and
\* second store write came back with an error)
Idle == [kind |-> "idle", pc |-> "-", live |-> FALSE, cTrip |-> FALSE,
         cId |-> NoId, cRisk |-> "low", resId |-> NoId, resRisk |-> "none",
         prePanic |-> FALSE, e1 |-> FALSE, e2 |-> FALSE]

\* a store write either is executed or comes back as { data: null, error }
\* with the table unchanged; the client returns the error, it does not throw
Outcome == {"ok", "error"}

InFlight == BagToSet(ops)

Free == MaxOps - BagCardinality(ops)

NewOp(kind, pc) == [Idle EXCEPT !.kind = kind, !.pc = pc, !.live = TRUE]

Spawn(B, o) == B (+) SetToBag({o})

Finish(o) == ops (-) SetToBag({o})

\* a handler with no store call left whose component is gone changes nothing
\* any more: it is dropped instead of being carried to its last continuation
Spent(o) ==
  /\ ~o.live
  /\ \/ o.kind \in {"fetchRiskStatus", "checkActiveTrip"}
     \/ o.kind = "startTrip" /\ o.pc = "inserted"
     \/ o.kind = "endTrip" /\ o.pc = "updated"
     \/ o.kind = "triggerPanic" /\ o.pc = "written"

Step(o, n) ==
  IF Spent(n) THEN ops (-) SetToBag({o})
  ELSE (ops (-) SetToBag({o})) (+) SetToBag({n})

\* setState of a handler reaches the component only while it is mounted
Mounted(o) == view = "home" /\ o.live

\* trips inserts still to come from handlers in flight
Inserting(o) ==
  \/ o.kind = "startTrip" /\ o.pc = "insert"
  \/ o.kind = "triggerPanic" /\ ~o.cTrip
       /\ o.pc \in {"select", "write", "insert"}

PendingInserts ==
  BagCardinality([o \in {p \in InFlight : Inserting(p)} |-> ops[o]])

CanInsert == NumRows + PendingInserts < MaxTrips

\* ------------------------------------------------------------------- Init
Init ==
  /\ trips = [i \in TripIds |-> NoRow]
  /\ risk_status = NoRisk
  /\ view = "other"
  /\ emergencyVariant \in {"api", "supabase"}
  /\ isTripActive = FALSE
  /\ currentTripId = NoId
  /\ riskLevel = "low"
  /\ safetyStatus = "safe"
  /\ loading = TRUE
  /\ endTripDialogOpen = FALSE
  /\ panicDialogOpen = FALSE
  /\ isDemoMode = FALSE
  /\ ops = EmptyBag
  /\ riskSetBy = "useState"
  /\ userActed = FALSE
  /\ isAutoSimulating = FALSE
  /\ simulationStep = 0
  /\ intervalLeft = NoInterval
  /\ liveIntervals = 0
  /\ simLog = "idle"
  /\ sinceUpdate = 0
  /\ guardians = 0
  /\ emLoading = TRUE
  /\ emGuardians = 0
  /\ guardianFetches = EmptyBag
  /\ mapMounted = FALSE
  /\ isTracking = FALSE
  /\ geolocation = "unread"
  /\ watches = 0
  /\ location = FALSE
  /\ error = "none"
  /\ permissionDenied = FALSE
  /\ risk = "none"
  /\ riskRequests = {}
  /\ positions = 0
  /\ riskFrom = 0
  /\ session = FALSE
  /\ nk_user = FALSE
  /\ route = "/auth"
  /\ authenticated = FALSE
  /\ stLoading = TRUE
  /\ stGuardians = 0
  /\ stOp = NoOp
  /\ toastTitle = "none"

\* --------------------------------------------------- mounting / unmounting
\* a mutant of Cleanup: the effect returns no cleanup, its interval stays
CleanupMissing(n) == n

\* the intervals left of n when the effect's cleanup has run:
\* return () => clearInterval(interval) clears the one the effect set
Cleanup(n) == 0

\* the intervals live after the simulation effect has run again: the cleanup
\* of its last run, then setInterval when simulating with a trip active
EffectTimers(auto, tripActive) ==
  Cleanup(liveIntervals) + (IF auto /\ tripActive THEN 1 ELSE 0)

\* DemoModePanel's useState initial values; unmounting runs the cleanup
SimInitial ==
  /\ isAutoSimulating' = FALSE
  /\ simulationStep' = 0
  /\ intervalLeft' = NoInterval
  /\ liveIntervals' = Cleanup(liveIntervals)
  /\ simLog' = "idle"
  /\ sinceUpdate' = 0

\* the interval the simulation effect leaves behind: none unless simulating
\* with a trip active
EffectInterval(auto, tripActive) ==
  IF auto /\ tripActive THEN SimPeriod ELSE NoInterval

\* Home, which stays mounted, has rendered for a reason of its own.
\* DemoModePanel is rendered when isDemoMode and not loading; handleDemoRiskChange is a new function in every
\* render of Home, so the simulation effect runs again: it clears the interval
\* and sets a new one, or sets simulationStep to 0 when not simulating or
\* without a trip
Rerender ==
  IF ~loading' /\ isDemoMode'
  THEN /\ isAutoSimulating' = isAutoSimulating
       /\ simLog' = simLog
       /\ intervalLeft' = EffectInterval(isAutoSimulating, isTripActive')
       /\ liveIntervals' = EffectTimers(isAutoSimulating, isTripActive')
       /\ IF isAutoSimulating /\ isTripActive'
          THEN simulationStep' = simulationStep /\ sinceUpdate' = sinceUpdate
          ELSE simulationStep' = 0 /\ sinceUpdate' = 0
  ELSE SimInitial

\* Home's useState initial values
HomeInitial(demo) ==
  /\ isTripActive' = FALSE
  /\ currentTripId' = NoId
  /\ riskLevel' = "low"
  /\ safetyStatus' = "safe"
  /\ loading' = TRUE
  /\ endTripDialogOpen' = FALSE
  /\ panicDialogOpen' = FALSE
  /\ isDemoMode' = demo
  /\ riskSetBy' = "useState"
  /\ userActed' = FALSE
  /\ SimInitial

\* a fetchGuardians call: pc "select" until the store answered, then
\* "response" with the rows read, or NoData when the call failed
NoData == 0 - 1

NewFetch == [pc |-> "select", data |-> NoData]

\* Emergency's useState initial values; the setState of a fetch that outlives
\* the page is lost, so the fetches of an unmounted page are dropped
EmergencyUnmounted ==
  /\ emLoading' = TRUE
  /\ emGuardians' = 0
  /\ guardianFetches' = EmptyBag

\* Emergency mounts: its effect calls fetchGuardians (Emergency.tsx:27-34,
\* 200-218: the user is signed in)
MountEmergency ==
  /\ emLoading' = TRUE
  /\ emGuardians' = 0
  /\ guardianFetches' = SetToBag({NewFetch})

\* handlers of an unmounted component keep running, their setState is lost
Orphan(o) == IF o.kind = "handleReturnHome" THEN o ELSE [o EXCEPT !.live = FALSE]

Orphaned(B) ==
  [r \in {p \in {Orphan(o) : o \in BagToSet(B)} : ~Spent(p)} |->
     IF r.kind = "handleReturnHome" THEN CopiesIn(r, B)
     ELSE CopiesIn(r, B) + CopiesIn([r EXCEPT !.live = TRUE], B)]

\* Home mounts: the auth/load effect calls fetchRiskStatus and checkActiveTrip
MountHome(B, demo) ==
  /\ MaxOps - BagCardinality(B) >= 2
  /\ view' = "home"
  /\ HomeInitial(demo)
  /\ EmergencyUnmounted
  /\ ops' = Spawn(Spawn(Orphaned(B), NewOp("fetchRiskStatus", "select")),
                  NewOp("checkActiveTrip", "select"))

UnmountHome(to) ==
  /\ view' = to
  /\ HomeInitial(FALSE)
  /\ IF to = "emergency" THEN MountEmergency ELSE UNCHANGED emVars
  /\ ops' = Orphaned(ops)

\* the user opens /home or /home?demo=true from another page
VisitHome ==
  /\ view = "other"
  /\ \E demo \in BOOLEAN : MountHome(ops, demo)
  /\ UNCHANGED <<storeVars, emergencyVariant, otherVars, guardians>>

\* the user leaves Home for another page (a BottomNav link); React runs a
\* due navigate effect before it handles the click
LeaveHome ==
  /\ view = "home" /\ riskLevel # "high"
  /\ UnmountHome("other")
  /\ UNCHANGED <<storeVars, emergencyVariant, otherVars, guardians>>

\* onAuthStateChange fires with a session while Home is mounted
AuthStateChange ==
  /\ view = "home"
  /\ Free >= 2
  /\ ops' = Spawn(Spawn(ops, NewOp("fetchRiskStatus", "select")),
                  NewOp("checkActiveTrip", "select"))
  /\ UNCHANGED <<storeVars, view, emergencyVariant, otherVars, guardians, emVars, homeVars>>

\* --------------------------------------------------------- fetchRiskStatus
\* the store answers the risk_status select
fetchRiskStatus_store(o) ==
  /\ o.kind = "fetchRiskStatus" /\ o.pc = "select"
  /\ ops' = Step(o, [o EXCEPT !.pc = "selected", !.resRisk = risk_status.risk_level])
  /\ UNCHANGED <<storeVars, view, emergencyVariant, otherVars, guardians, emVars, homeVars>>

\* the status fetchRiskStatus derives from the row it read
FetchedStatus(level) ==
  IF level = "high" THEN "emergency"
  ELSE IF level = "medium" THEN "monitoring"
  ELSE "safe"

\* the continuation after the await
fetchRiskStatus_resolve(o) ==
  /\ o.kind = "fetchRiskStatus" /\ o.pc = "selected"
  /\ ops' = Finish(o)
  /\ IF Mounted(o)
     THEN /\ IF o.resRisk # "none"
             THEN /\ riskLevel' = o.resRisk
                  /\ safetyStatus' = FetchedStatus(o.resRisk)
                  /\ riskSetBy' = "fetchRiskStatus"
             ELSE UNCHANGED <<riskLevel, safetyStatus, riskSetBy>>
          /\ loading' = FALSE
          /\ UNCHANGED <<isTripActive, currentTripId, endTripDialogOpen,
                         panicDialogOpen, isDemoMode, userActed>>
          \* setRiskReason (not part of the state here) may render Home even
          \* when the level read is the level shown
          /\ \E render \in {Rendered' # Rendered} \cup
                            (IF o.resRisk # "none" THEN {TRUE} ELSE {}) :
               IF render THEN Rerender ELSE UNCHANGED simVars
     ELSE UNCHANGED homeVars
  /\ UNCHANGED <<storeVars, view, emergencyVariant, otherVars, guardians, emVars>>

\* --------------------------------------------------------- checkActiveTrip
checkActiveTrip_store(o) ==
  /\ o.kind = "checkActiveTrip" /\ o.pc = "select"
  /\ ops' = Step(o, [o EXCEPT !.pc = "selected", !.resId = MaybeSingleActive])
  /\ UNCHANGED <<storeVars, view, emergencyVariant, otherVars, guardians, emVars, homeVars>>

checkActiveTrip_resolve(o) ==
  /\ o.kind = "checkActiveTrip" /\ o.pc = "selected"
  /\ ops' = Finish(o)
  /\ IF Mounted(o) /\ o.resId # NoId
     THEN /\ isTripActive' = TRUE
          /\ currentTripId' = o.resId
          /\ safetyStatus' = "monitoring"
          /\ UNCHANGED <<riskLevel, loading, endTripDialogOpen,
                         panicDialogOpen, isDemoMode, riskSetBy, userActed>>
          /\ IF Rendered' # Rendered THEN Rerender ELSE UNCHANGED simVars
     ELSE UNCHANGED homeVars
  /\ UNCHANGED <<storeVars, view, emergencyVariant, otherVars, guardians, emVars>>

\* ------------------------------------------------------ user interaction
\* The page renders its controls once loading is false.  React runs the
\* effects of a committed render before it handles the next click, so no
\* click is handled while the navigate effect is still due.
Interactive == view = "home" /\ ~loading /\ riskLevel # "high"

\* ConfirmDialog is modal: the page behind an open dialog takes no clicks
NoDialog == ~endTripDialogOpen /\ ~panicDialogOpen

\* useEffect(() => { if (riskLevel === "high") navigate("/emergency") })
NavigatesOn(level) == level = "high"

\* the effect after a render that an async continuation (a store response)
\* caused: React runs it later, other continuations may run before it
NavigateEffect ==
  /\ view = "home"
  /\ NavigatesOn(riskLevel)
  /\ UnmountHome("emergency")
  /\ UNCHANGED <<storeVars, emergencyVariant, otherVars, guardians>>

\* handleDemoRiskChange with the branches of fetchRiskStatus: low is "safe"
\* whether or not a trip is active
DemoStatusLikeFetch(level, tripActive) == FetchedStatus(level)

\* the derivation handleDemoRiskChange applies
DemoStatus(level, tripActive) ==
  IF level = "high" THEN "emergency"
  ELSE IF level = "medium" THEN "monitoring"
  ELSE IF tripActive THEN "monitoring" ELSE "safe"

\* a mutant of DemoRiskStored: the demo level is written to the user's row
DemoRiskStoredWritten(level) == [risk_level |-> level, reason |-> "Demo"]

\* the risk_status row after handleDemoRiskChange: the handler makes no store
\* call, the row is as it was
DemoRiskStored(level) == risk_status

\* a risk button of DemoModePanel (rendered while a trip is active, disabled
\* while simulating): stopSimulation(); onRiskChange(level).  The
\* update comes from a click, so React renders it and runs the navigate
\* effect before the click returns: a high level unmounts Home in this step.
handleDemoRiskChange(level) ==
  /\ Interactive /\ NoDialog
  /\ isDemoMode /\ isTripActive /\ ~isAutoSimulating
  /\ IF NavigatesOn(level)
     THEN UnmountHome("emergency")
     ELSE /\ riskLevel' = level
          /\ safetyStatus' = DemoStatus(level, isTripActive)
          /\ riskSetBy' = "handleDemoRiskChange"
          /\ userActed' = TRUE
          /\ UNCHANGED <<view, isTripActive, currentTripId, loading,
                         endTripDialogOpen, panicDialogOpen, isDemoMode, ops,
                         emVars>>
          /\ Rerender
  /\ risk_status' = DemoRiskStored(level)
  /\ UNCHANGED <<trips, emergencyVariant, otherVars, guardians>>

\* ---------------------------------------------------------- demo simulator
\* the controls of DemoModePanel take a click when the page does
PanelInteractive == Interactive /\ NoDialog /\ isDemoMode

\* handleAutoSimulate without its guard
CanSimulateAlways(tripActive) == TRUE

\* if (!isTripActive) return;
CanSimulate(tripActive) == tripActive

\* handleAutoSimulate, the start operation of the panel ("Auto Escalate",
\* shown while a trip is active and no simulation runs).  Its own guard
\* refuses a start without a trip.  Otherwise setIsAutoSimulating(true),
\* setSimulationStep(0), onRiskChange("low"), and the effect sets the interval
handleAutoSimulate ==
  /\ PanelInteractive
  /\ IF ~CanSimulate(isTripActive)
     THEN /\ simLog' = "ignored"
          /\ UNCHANGED <<stateVars, isAutoSimulating, simulationStep,
                         intervalLeft, liveIntervals, sinceUpdate,
                         risk_status>>
     ELSE /\ ~isAutoSimulating
          /\ risk_status' = DemoRiskStored(Steps[1])
          /\ isAutoSimulating' = TRUE
          /\ simulationStep' = 0
          /\ riskLevel' = Steps[1]
          /\ safetyStatus' = DemoStatus(Steps[1], isTripActive)
          /\ riskSetBy' = "handleDemoRiskChange"
          /\ userActed' = TRUE
          /\ intervalLeft' = EffectInterval(TRUE, isTripActive)
          /\ liveIntervals' = EffectTimers(TRUE, isTripActive)
          /\ simLog' = Steps[1]
          /\ sinceUpdate' = 0
          /\ UNCHANGED <<isTripActive, currentTripId, loading, endTripDialogOpen,
                         panicDialogOpen, isDemoMode>>
  /\ UNCHANGED <<trips, view, emergencyVariant, otherVars, guardians, emVars, ops>>

\* stopSimulation that leaves isAutoSimulating set
StoppedFlagKept == TRUE

\* setIsAutoSimulating(false) of stopSimulation
StoppedFlag == FALSE

\* stopSimulation ("Stop Simulation", shown while simulating):
\* setIsAutoSimulating(false); setSimulationStep(0); the effect's cleanup
\* clears the interval
stopSimulation ==
  /\ PanelInteractive /\ isTripActive /\ isAutoSimulating
  /\ isAutoSimulating' = StoppedFlag
  /\ simulationStep' = 0
  /\ intervalLeft' = EffectInterval(StoppedFlag, isTripActive)
  /\ liveIntervals' = EffectTimers(StoppedFlag, isTripActive)
  /\ simLog' = "stopped"
  /\ sinceUpdate' = 0
  /\ UNCHANGED <<storeVars, view, emergencyVariant, otherVars, guardians, emVars, stateVars, ops>>

\* one time unit passes while an interval is set.  A due navigate effect runs
\* within the unit, and so does an interval that has come due
TimePasses ==
  /\ view = "home" /\ intervalLeft > 0
  /\ ~NavigatesOn(riskLevel)
  /\ intervalLeft' = intervalLeft - 1
  /\ sinceUpdate' = IF sinceUpdate <= SimPeriod THEN sinceUpdate + 1 ELSE sinceUpdate
  /\ UNCHANGED <<storeVars, view, emergencyVariant, otherVars, guardians, emVars, stateVars, ops,
                 isAutoSimulating, simulationStep, liveIntervals, simLog>>

\* the interval fires: setSimulationStep(prev => ...).  Past the last step it
\* stops the simulation; otherwise it calls onRiskChange(steps[next]), the
\* handleDemoRiskChange of the last render.  The interval is periodic, and
\* the effect of the new render sets a fresh one
SimTick ==
  /\ view = "home" /\ intervalLeft = 0
  /\ LET next == simulationStep + 1 IN
       IF next >= Len(Steps)
       THEN /\ isAutoSimulating' = FALSE
            /\ simulationStep' = 0
            /\ intervalLeft' = NoInterval
            /\ liveIntervals' = EffectTimers(FALSE, isTripActive)
            /\ simLog' = "done"
            /\ sinceUpdate' = 0
            /\ UNCHANGED <<stateVars, risk_status>>
       ELSE /\ simulationStep' = next
            /\ risk_status' = DemoRiskStored(Steps[next + 1])
            /\ riskLevel' = Steps[next + 1]
            /\ safetyStatus' = DemoStatus(Steps[next + 1], isTripActive)
            /\ riskSetBy' = "handleDemoRiskChange"
            /\ intervalLeft' = SimPeriod
            /\ liveIntervals' = EffectTimers(TRUE, isTripActive)
            /\ simLog' = Steps[next + 1]
            /\ sinceUpdate' = 0
            /\ UNCHANGED <<isTripActive, currentTripId, loading, endTripDialogOpen,
                           panicDialogOpen, isDemoMode, isAutoSimulating,
                           userActed>>
  /\ UNCHANGED <<trips, view, emergencyVariant, otherVars, guardians, emVars, ops>>

\* --------------------------------------------------------------- startTrip
\* handleTripToggle: the trip button opens the End Trip dialog when the
\* rendered isTripActive is true and calls startTrip() otherwise
handleTripToggle ==
  /\ Interactive /\ NoDialog
  /\ userActed' = TRUE
  /\ UNCHANGED <<storeVars, view, emergencyVariant, otherVars, guardians, emVars, isTripActive, currentTripId,
                 riskLevel, safetyStatus, loading, panicDialogOpen, isDemoMode, riskSetBy>>
  /\ IF isTripActive
     THEN /\ endTripDialogOpen' = TRUE
          /\ UNCHANGED ops
          /\ Rerender
     ELSE /\ Free >= 1 /\ CanInsert
          /\ ops' = Spawn(ops, NewOp("startTrip", "insert"))
          /\ UNCHANGED <<endTripDialogOpen, simVars>>

\* the store executes trips.insert({status: "active"})
startTrip_store(o) ==
  /\ o.kind = "startTrip" /\ o.pc = "insert"
  /\ \E res \in Outcome :
       IF res = "ok"
       THEN /\ trips' = InsertTrip
            /\ ops' = Step(o, [o EXCEPT !.pc = "inserted", !.resId = NewTripId])
       ELSE /\ trips' = trips
            /\ ops' = Step(o, [o EXCEPT !.pc = "inserted", !.e1 = TRUE])
  /\ UNCHANGED <<risk_status, view, emergencyVariant, otherVars, guardians, emVars, homeVars>>

\* if (data) { setCurrentTripId; setIsTripActive(true); setSafetyStatus };
\* with data null (the insert failed) nothing is set
startTrip_resolve(o) ==
  /\ o.kind = "startTrip" /\ o.pc = "inserted"
  /\ ops' = Finish(o)
  /\ IF Mounted(o) /\ o.resId # NoId
     THEN /\ currentTripId' = o.resId
          /\ isTripActive' = TRUE
          /\ safetyStatus' = "monitoring"
          /\ UNCHANGED <<riskLevel, loading, endTripDialogOpen,
                         panicDialogOpen, isDemoMode, riskSetBy, userActed>>
          /\ Rerender
     ELSE UNCHANGED homeVars
  /\ UNCHANGED <<storeVars, view, emergencyVariant, otherVars, guardians, emVars>>

\* ----------------------------------------------------------------- endTrip
\* onOpenChange(false) of the End Trip dialog
DismissEndTripDialog ==
  /\ view = "home" /\ endTripDialogOpen
  /\ userActed' = TRUE
  /\ endTripDialogOpen' = FALSE
  /\ UNCHANGED <<storeVars, view, emergencyVariant, otherVars, guardians, emVars, isTripActive, currentTripId,
                 riskLevel, safetyStatus, loading, panicDialogOpen, isDemoMode, ops, riskSetBy>>
  /\ Rerender

\* onConfirm of the End Trip dialog: endTrip() with the rendered
\* currentTripId and riskLevel; it returns at once when currentTripId is null
endTrip ==
  /\ Interactive /\ endTripDialogOpen
  /\ currentTripId # NoId
  /\ Free >= 1
  /\ ops' = Spawn(ops, [NewOp("endTrip", "updateTrip") EXCEPT
                          !.cId = currentTripId, !.cRisk = riskLevel])
  /\ UNCHANGED <<storeVars, view, emergencyVariant, otherVars, guardians, emVars, homeVars>>

\* the store executes trips.update({completed, ended_at, end_risk_level});
\* the continuation then issues the risk_status update
endTrip_storeTrip(o) ==
  /\ o.kind = "endTrip" /\ o.pc = "updateTrip"
  /\ \E res \in Outcome :
       IF res = "ok"
       THEN /\ trips' = UpdateTripCompleted(o.cId, o.cRisk)
            /\ ops' = Step(o, [o EXCEPT !.pc = "updateRisk"])
       ELSE /\ trips' = trips
            /\ ops' = Step(o, [o EXCEPT !.pc = "updateRisk", !.e1 = TRUE])
  /\ UNCHANGED <<risk_status, view, emergencyVariant, otherVars, guardians, emVars, homeVars>>

\* the store executes risk_status.update({low, "Trip ended safely"})
endTrip_storeRisk(o) ==
  /\ o.kind = "endTrip" /\ o.pc = "updateRisk"
  /\ \E res \in Outcome :
       IF res = "ok"
       THEN /\ risk_status' = UpdateRisk("low", "Trip ended safely")
            /\ ops' = Step(o, [o EXCEPT !.pc = "updated"])
       ELSE /\ risk_status' = risk_status
            /\ ops' = Step(o, [o EXCEPT !.pc = "updated", !.e2 = TRUE])
  /\ UNCHANGED <<trips, view, emergencyVariant, otherVars, guardians, emVars, homeVars>>

\* endTrip without its setRiskLevel("low"): the prior level is kept
EndTripRiskKept(prior) == prior

\* the riskLevel endTrip leaves in the component: setRiskLevel("low")
EndTripRisk(prior) == "low"

\* a mutant of EndTripId: endTrip keeps the id of the trip it ended
EndTripIdKept(prior) == prior

\* the currentTripId endTrip leaves in the component: setCurrentTripId(null)
EndTripId(prior) == NoId

\* the setState calls that close endTrip
endTrip_resolve(o) ==
  /\ o.kind = "endTrip" /\ o.pc = "updated"
  /\ ops' = Finish(o)
  /\ IF Mounted(o)
     THEN /\ isTripActive' = FALSE
          /\ currentTripId' = EndTripId(currentTripId)
          /\ safetyStatus' = "safe"
          /\ riskLevel' = EndTripRisk(riskLevel)
          /\ endTripDialogOpen' = FALSE
          /\ riskSetBy' = "endTrip"
          /\ UNCHANGED <<loading, panicDialogOpen, isDemoMode, userActed>>
          /\ Rerender
     ELSE UNCHANGED homeVars
  /\ UNCHANGED <<storeVars, view, emergencyVariant, otherVars, guardians, emVars>>

\* ------------------------------------------------------------ triggerPanic
\* the Emergency SOS button: setPanicDialogOpen(true)
OpenPanicDialog ==
  /\ Interactive /\ NoDialog
  /\ userActed' = TRUE
  /\ panicDialogOpen' = TRUE
  /\ UNCHANGED <<storeVars, view, emergencyVariant, otherVars, guardians, emVars, isTripActive, currentTripId,
                 riskLevel, safetyStatus, loading, endTripDialogOpen, isDemoMode, ops, riskSetBy>>
  /\ Rerender

\* onOpenChange(false) of the panic dialog
DismissPanicDialog ==
  /\ view = "home" /\ panicDialogOpen
  /\ userActed' = TRUE
  /\ panicDialogOpen' = FALSE
  /\ UNCHANGED <<storeVars, view, emergencyVariant, otherVars, guardians, emVars, isTripActive, currentTripId,
                 riskLevel, safetyStatus, loading, endTripDialogOpen, isDemoMode, ops, riskSetBy>>
  /\ Rerender

\* history only: the fetches in flight at the invocation are marked
MarkPrePanic(o) ==
  IF o.kind = "fetchRiskStatus" THEN [o EXCEPT !.prePanic = TRUE] ELSE o

PrePanic(B) ==
  [r \in {MarkPrePanic(o) : o \in BagToSet(B)} |->
     IF r.kind = "fetchRiskStatus"
     THEN CopiesIn(r, B) + CopiesIn([r EXCEPT !.prePanic = FALSE], B)
     ELSE CopiesIn(r, B)]

\* onConfirm of the panic dialog: triggerPanic() with the rendered
\* isTripActive; its setTriggeringPanic(true) renders Home
triggerPanic ==
  /\ Interactive /\ panicDialogOpen
  /\ Free >= 1
  /\ isTripActive \/ CanInsert
  /\ ops' = Spawn(PrePanic(ops),
                  [NewOp("triggerPanic", "select") EXCEPT !.cTrip = isTripActive])
  /\ UNCHANGED <<storeVars, view, emergencyVariant, otherVars, guardians, emVars, stateVars>>
  /\ Rerender

\* the store answers risk_status.select("id"); the continuation then issues
\* the update (row found) or the insert (no row)
triggerPanic_storeSelect(o) ==
  /\ o.kind = "triggerPanic" /\ o.pc = "select"
  /\ ops' = Step(o, [o EXCEPT !.pc = "write", !.resRisk = risk_status.risk_level])
  /\ UNCHANGED <<storeVars, view, emergencyVariant, otherVars, guardians, emVars, homeVars>>

\* the store executes the risk_status update or insert; the continuation
\* issues the trips insert when the captured isTripActive is false
triggerPanic_storeRisk(o) ==
  /\ o.kind = "triggerPanic" /\ o.pc = "write"
  /\ \E res \in Outcome :
       IF res = "ok"
       THEN /\ risk_status' = IF o.resRisk # "none"
                               THEN UpdateRisk("high", "Panic button activated")
                               ELSE InsertRisk("high", "Panic button activated")
            /\ ops' = Step(o, [o EXCEPT !.pc = IF o.cTrip THEN "written" ELSE "insert"])
       ELSE /\ risk_status' = risk_status
            /\ ops' = Step(o, [o EXCEPT !.pc = IF o.cTrip THEN "written" ELSE "insert",
                                        !.e1 = TRUE])
  /\ UNCHANGED <<trips, view, emergencyVariant, otherVars, guardians, emVars, homeVars>>

\* the store executes trips.insert({status: "active"})
triggerPanic_storeTrip(o) ==
  /\ o.kind = "triggerPanic" /\ o.pc = "insert"
  /\ \E res \in Outcome :
       IF res = "ok"
       THEN /\ trips' = InsertTrip
            /\ ops' = Step(o, [o EXCEPT !.pc = "written", !.resId = NewTripId])
       ELSE /\ trips' = trips
            /\ ops' = Step(o, [o EXCEPT !.pc = "written", !.e2 = TRUE])
  /\ UNCHANGED <<risk_status, view, emergencyVariant, otherVars, guardians, emVars, homeVars>>

\* if (data) { setCurrentTripId; setIsTripActive(true) };
\* setRiskLevel("high"); setSafetyStatus("emergency"); setPanicDialogOpen(false)
triggerPanic_resolve(o) ==
  /\ o.kind = "triggerPanic" /\ o.pc = "written"
  /\ ops' = Finish(o)
  /\ IF Mounted(o)
     THEN /\ IF o.resId # NoId
             THEN currentTripId' = o.resId /\ isTripActive' = TRUE
             ELSE UNCHANGED <<currentTripId, isTripActive>>
          /\ riskLevel' = "high"
          /\ safetyStatus' = "emergency"
          /\ panicDialogOpen' = FALSE
          /\ riskSetBy' = "triggerPanic"
          /\ UNCHANGED <<loading, endTripDialogOpen, isDemoMode, userActed>>
          /\ Rerender
     ELSE UNCHANGED homeVars
  /\ UNCHANGED <<storeVars, view, emergencyVariant, otherVars, guardians, emVars>>

\* ---------------------------------------------------------- Emergency view
\* the user opens /emergency from another page
VisitEmergency ==
  /\ view = "other"
  /\ view' = "emergency"
  /\ MountEmergency
  /\ UNCHANGED <<storeVars, emergencyVariant, otherVars, guardians, homeVars, ops>>

\* the user leaves the emergency view for another page (URL, back)
LeaveEmergency ==
  /\ view = "emergency"
  /\ view' = "other"
  /\ EmergencyUnmounted
  /\ UNCHANGED <<storeVars, emergencyVariant, otherVars, guardians, homeVars, ops>>

\* onAuthStateChange fires with a session while Emergency is mounted
\* (Emergency.tsx:201-207): its callback calls fetchGuardians again
EmergencyAuthStateChange ==
  /\ view = "emergency" /\ emergencyVariant = "supabase"
  /\ BagCardinality(guardianFetches) < MaxFetches
  /\ guardianFetches' = guardianFetches (+) SetToBag({NewFetch})
  /\ UNCHANGED <<storeVars, view, emergencyVariant, otherVars, guardians, homeVars, ops,
                 emLoading, emGuardians>>

\* the store answers the guardians select of the user: the rows, or a failure
fetchGuardians_store(f) ==
  /\ f.pc = "select"
  /\ \E res \in Outcome :
       guardianFetches' = (guardianFetches (-) SetToBag({f})) (+)
         SetToBag({[pc |-> "response",
                    data |-> IF res = "ok" THEN guardians ELSE NoData]})
  /\ UNCHANGED <<storeVars, view, emergencyVariant, otherVars, guardians, homeVars, ops,
                 emLoading, emGuardians>>

\* a mutant of LoadingAfterFetch: without the finally, a failed call leaves
\* the page loading
LoadingAfterFetchNoFinally(data) == data = NoData

\* finally { setLoading(false) }: whatever the call returned
LoadingAfterFetch(data) == FALSE

\* the response: setGuardians(data) when there is data (a failed call goes
\* to the catch, or has data null), then setLoading(false)
fetchGuardians_resolve(f) ==
  /\ f.pc = "response"
  /\ guardianFetches' = guardianFetches (-) SetToBag({f})
  /\ emGuardians' = IF f.data # NoData THEN f.data ELSE emGuardians
  /\ emLoading' = LoadingAfterFetch(f.data)
  /\ UNCHANGED <<storeVars, view, emergencyVariant, otherVars, guardians, homeVars, ops>>

\* what the Emergency page renders under Emergency Contacts
EmergencyShows ==
  IF emLoading THEN "loading"
  ELSE IF emGuardians > 0 THEN "contacts"
  ELSE "No guardians configured"

\* Settings, Add Guardian: a guardians row is inserted for the user
handleAddGuardian ==
  /\ view = "other"
  /\ guardians < MaxGuardians
  /\ guardians' = guardians + 1
  /\ UNCHANGED <<storeVars, view, emergencyVariant, otherVars, homeVars, ops, emVars>>

\* Settings, Remove (the hosted-store build): a guardians row is deleted
handleDeleteGuardian ==
  /\ view = "other" /\ emergencyVariant = "supabase"
  /\ guardians > 0
  /\ guardians' = guardians - 1
  /\ UNCHANGED <<storeVars, view, emergencyVariant, otherVars, homeVars, ops, emVars>>

\* Return to Dashboard, Emergency.tsx:47: navigate("/home")
handleReturnHome_api ==
  /\ view = "emergency" /\ emergencyVariant = "api"
  /\ MountHome(ops, FALSE)
  /\ UNCHANGED <<storeVars, emergencyVariant, otherVars, guardians>>

\* Return to Dashboard, Emergency.tsx:238: risk_status update, then navigate
handleReturnHome ==
  /\ view = "emergency" /\ emergencyVariant = "supabase"
  /\ Free >= 1
  /\ ops' = Spawn(ops, NewOp("handleReturnHome", "update"))
  /\ UNCHANGED <<storeVars, view, emergencyVariant, otherVars, guardians, emVars, homeVars>>

\* what handleReturnHome writes to the user's risk_status row
ResolvedRisk == UpdateRisk("low", "Emergency resolved")

\* the store executes risk_status.update({low, "Emergency resolved"})
handleReturnHome_store(o) ==
  /\ o.kind = "handleReturnHome" /\ o.pc = "update"
  /\ risk_status' = ResolvedRisk
  /\ ops' = Step(o, [o EXCEPT !.pc = "updated"])
  /\ UNCHANGED <<trips, view, emergencyVariant, otherVars, guardians, emVars, homeVars>>

\* navigate("/home"): Home mounts, unless it is the page already shown
handleReturnHome_resolve(o) ==
  /\ o.kind = "handleReturnHome" /\ o.pc = "updated"
  /\ IF view = "home"
     THEN /\ ops' = Finish(o)
          /\ isDemoMode' = FALSE
          /\ UNCHANGED <<view, isTripActive, currentTripId, riskLevel, safetyStatus,
                         loading, endTripDialogOpen, panicDialogOpen, riskSetBy,
                         userActed, emVars>>
          /\ Rerender
     ELSE MountHome(Finish(o), FALSE)
  /\ UNCHANGED <<storeVars, emergencyVariant, otherVars, guardians>>

\* ------------------------------------------------------------------- Next
Next ==
  \/ VisitHome
  \/ LeaveHome
  \/ AuthStateChange
  \/ \E o \in InFlight : fetchRiskStatus_store(o)
  \/ \E o \in InFlight : fetchRiskStatus_resolve(o)
  \/ \E o \in InFlight : checkActiveTrip_store(o)
  \/ \E o \in InFlight : checkActiveTrip_resolve(o)
  \/ NavigateEffect
  \/ \E level \in RiskLevel : handleDemoRiskChange(level)
  \/ handleTripToggle
  \/ \E o \in InFlight : startTrip_store(o)
  \/ \E o \in InFlight : startTrip_resolve(o)
  \/ DismissEndTripDialog
  \/ endTrip
  \/ \E o \in InFlight : endTrip_storeTrip(o)
  \/ \E o \in InFlight : endTrip_storeRisk(o)
  \/ \E o \in InFlight : endTrip_resolve(o)
  \/ OpenPanicDialog
  \/ DismissPanicDialog
  \/ triggerPanic
  \/ \E o \in InFlight : triggerPanic_storeSelect(o)
  \/ \E o \in InFlight : triggerPanic_storeRisk(o)
  \/ \E o \in InFlight : triggerPanic_storeTrip(o)
  \/ \E o \in InFlight : triggerPanic_resolve(o)
  \/ VisitEmergency
  \/ LeaveEmergency
  \/ handleReturnHome_api
  \/ handleReturnHome
  \/ \E o \in InFlight : handleReturnHome_store(o)
  \/ \E o \in InFlight : handleReturnHome_resolve(o)

Spec == Init /\ [][Next]_vars

\* The demo session: Home opened with ?demo=true, the trip button, the two
\* dialogs and the panel's auto-escalation, with the time its interval takes.
SimNext ==
  \/ VisitHome
  \/ LeaveHome
  \/ \E o \in InFlight : fetchRiskStatus_store(o)
  \/ \E o \in InFlight : fetchRiskStatus_resolve(o)
  \/ \E o \in InFlight : checkActiveTrip_store(o)
  \/ \E o \in InFlight : checkActiveTrip_resolve(o)
  \/ NavigateEffect
  \/ \E level \in RiskLevel : handleDemoRiskChange(level)
  \/ handleAutoSimulate
  \/ stopSimulation
  \/ TimePasses
  \/ SimTick
  \/ handleTripToggle
  \/ \E o \in InFlight : startTrip_store(o)
  \/ \E o \in InFlight : startTrip_resolve(o)
  \/ DismissEndTripDialog
  \/ endTrip
  \/ \E o \in InFlight : endTrip_storeTrip(o)
  \/ \E o \in InFlight : endTrip_storeRisk(o)
  \/ \E o \in InFlight : endTrip_resolve(o)
  \/ OpenPanicDialog
  \/ DismissPanicDialog
  \/ LeaveEmergency

SimSpec == Init /\ [][SimNext]_vars

\* The emergency session: the guardians kept in Settings, the SOS on Home and
\* the Emergency page it leads to, with the page's guardian fetches.
EmergencyNext ==
  \/ VisitHome
  \/ LeaveHome
  \/ \E o \in InFlight : fetchRiskStatus_store(o)
  \/ \E o \in InFlight : fetchRiskStatus_resolve(o)
  \/ \E o \in InFlight : checkActiveTrip_store(o)
  \/ \E o \in InFlight : checkActiveTrip_resolve(o)
  \/ NavigateEffect
  \/ OpenPanicDialog
  \/ DismissPanicDialog
  \/ triggerPanic
  \/ \E o \in InFlight : triggerPanic_storeSelect(o)
  \/ \E o \in InFlight : triggerPanic_storeRisk(o)
  \/ \E o \in InFlight : triggerPanic_storeTrip(o)
  \/ \E o \in InFlight : triggerPanic_resolve(o)
  \/ handleAddGuardian
  \/ handleDeleteGuardian
  \/ VisitEmergency
  \/ LeaveEmergency
  \/ EmergencyAuthStateChange
  \/ \E f \in BagToSet(guardianFetches) : fetchGuardians_store(f)
  \/ \E f \in BagToSet(guardianFetches) : fetchGuardians_resolve(f)
  \/ handleReturnHome_api
  \/ handleReturnHome
  \/ \E o \in InFlight : handleReturnHome_store(o)
  \/ \E o \in InFlight : handleReturnHome_resolve(o)

EmergencySpec == Init /\ [][EmergencyNext]_vars

\* ------------------------------------------------------------- LocationMap
\* risk_level values of a calculateRisk response
RiskResult == {"LOW", "MEDIUM", "HIGH"}

\* navigator.geolocation.clearWatch(watchIdRef.current): the effect holds one
\* watch id, and its cleanup (and its not-tracking branch) clears that watch
ClearWatch(n) == 0

\* the geolocation effect, run with isTracking = t after the cleanup of its
\* previous run: not tracking, it clears the watch; tracking in a browser
\* without geolocation, it sets the error; otherwise it starts a watch
MapEffect(t) ==
  \E g \in (IF t /\ geolocation = "unread" THEN {"present", "absent"}
                                           ELSE {geolocation}) :
    /\ geolocation' = g
    /\ watches' = ClearWatch(watches) + (IF t /\ g = "present" THEN 1 ELSE 0)
    /\ error' = IF t /\ g = "absent" THEN "Geolocation not supported" ELSE error

\* a page renders <LocationMap isTracking={t} />
MountMap(t) ==
  /\ ~mapMounted
  /\ mapMounted' = TRUE
  /\ isTracking' = t
  /\ MapEffect(t)
  /\ UNCHANGED <<location, permissionDenied, risk, riskRequests, positions,
                 riskFrom, appVars>>

\* the page renders the mounted LocationMap with another isTracking
SetTracking(t) ==
  /\ mapMounted /\ t # isTracking
  /\ isTracking' = t
  /\ MapEffect(t)
  /\ UNCHANGED <<mapMounted, location, permissionDenied, risk, riskRequests,
                 positions, riskFrom, appVars>>

\* the page unmounts the LocationMap: the effect's cleanup runs, the state
\* is dropped, and the setRisk of a call still in flight is lost
UnmountMap ==
  /\ mapMounted
  /\ mapMounted' = FALSE
  /\ isTracking' = FALSE
  /\ watches' = ClearWatch(watches)
  /\ location' = FALSE
  /\ error' = "none"
  /\ permissionDenied' = FALSE
  /\ risk' = "none"
  /\ riskFrom' = 0
  /\ riskRequests' = {}
  /\ UNCHANGED <<geolocation, positions, appVars>>

\* the success callback of watchPosition, up to its await
PositionUpdate ==
  /\ mapMounted /\ watches > 0
  /\ positions < MaxPositions
  /\ positions' = positions + 1
  /\ location' = TRUE
  /\ error' = "none"
  /\ riskRequests' = riskRequests \cup {positions + 1}
  /\ UNCHANGED <<mapMounted, isTracking, geolocation, watches,
                 permissionDenied, risk, riskFrom, appVars>>

\* the error callback of watchPosition
PositionError(denied) ==
  /\ mapMounted /\ watches > 0
  /\ permissionDenied' = (permissionDenied \/ denied)
  /\ error' = IF denied THEN "Permission denied" ELSE "Unable to fetch location"
  /\ UNCHANGED <<mapMounted, isTracking, geolocation, watches, location, risk,
                 riskRequests, positions, riskFrom, appVars>>

\* the callback after its await, when calculateRisk returned r: setRisk(r)
calculateRisk_resolve(q, r) ==
  /\ q \in riskRequests
  /\ riskRequests' = riskRequests \ {q}
  /\ risk' = r
  /\ riskFrom' = q
  /\ UNCHANGED <<mapMounted, isTracking, geolocation, watches, location, error,
                 permissionDenied, positions, appVars>>

\* a mutant of RiskAfterFailure: the catch clears the risk result
RiskAfterFailureCleared(prior) == "none"

\* the risk result after the catch block, which only logs to the console
RiskAfterFailure(prior) == prior

\* the callback after its await, when calculateRisk threw: the catch block
calculateRisk_reject(q) ==
  /\ q \in riskRequests
  /\ riskRequests' = riskRequests \ {q}
  /\ risk' = RiskAfterFailure(risk)
  /\ UNCHANGED <<mapMounted, isTracking, geolocation, watches, location, error,
                 permissionDenied, positions, riskFrom, appVars>>

\* what the LocationMap renders
MapShows ==
  IF ~mapMounted THEN "nothing"
  ELSE IF ~isTracking THEN "Start a trip to enable live tracking"
  ELSE IF permissionDenied THEN "Location permission required"
  ELSE IF error # "none" /\ ~location THEN "Acquiring location"
  ELSE "map"

\* the risk badge on the map
RiskBadge == IF MapShows = "map" THEN risk ELSE "none"

\* Home renders <LocationMap isTracking={isTripActive} /> once it has loaded
HomeTracking == view = "home" /\ ~loading /\ isTripActive

\* the Emergency page that calls the API renders <LocationMap isTracking />
\* once it has loaded; the hosted-store page renders no LocationMap
EmergencyTracking ==
  view = "emergency" /\ emergencyVariant = "api" /\ ~emLoading

\* a LocationMap is rendered with isTracking true: its effect holds a watch
TrackingOn == HomeTracking \/ EmergencyTracking

\* The tracking session: a page mounts the LocationMap, turns its tracking
\* on and off, positions arrive and the risk endpoint answers or fails.
MapNext ==
  \/ \E t \in BOOLEAN : MountMap(t)
  \/ \E t \in BOOLEAN : SetTracking(t)
  \/ UnmountMap
  \/ PositionUpdate
  \/ \E denied \in BOOLEAN : PositionError(denied)
  \/ \E q \in riskRequests : \E r \in RiskResult : calculateRisk_resolve(q, r)
  \/ \E q \in riskRequests : calculateRisk_reject(q)

MapSpec == Init /\ [][MapNext]_vars

\* ------------------------------------------------------- sign-in and pages
Protected == {"/home", "/emergency", "/history", "/settings", "/onboarding"}

Routes == Protected \cup {"/auth"}

\* getUser() of utils/auth: the nk_user entry that Auth writes and the
\* API Settings page removes at logout
getUser == nk_user

\* what the auth effect of a page reads: Home, and the hosted-store Emergency
\* and Settings pages, read the auth client's session; the API Emergency page
\* and Onboarding read nk_user; History and the API Settings page call getUser
Credential(p) ==
  CASE p = "/home"       -> session
    [] p = "/emergency"  -> IF emergencyVariant = "api" THEN nk_user ELSE session
    [] p = "/history"    -> getUser
    [] p = "/onboarding" -> nk_user
    [] p = "/settings"   -> IF emergencyVariant = "api" THEN getUser ELSE session
    [] OTHER             -> TRUE

\* Settings mounts: its auth effect calls fetchGuardians
SettingsMount ==
  /\ stOp = NoOp
  /\ stLoading' = TRUE
  /\ stGuardians' = 0
  /\ stOp' = [kind |-> "fetchGuardians", pc |-> "store", ok |-> TRUE,
              seen |-> 0, live |-> TRUE, synced |-> FALSE]

\* Settings unmounts: its state is dropped, its handler in flight keeps
\* running and its setState calls are lost
SettingsUnmount ==
  /\ stLoading' = TRUE
  /\ stGuardians' = 0
  /\ stOp' = IF stOp.kind = "none" THEN NoOp ELSE [stOp EXCEPT !.live = FALSE]

\* the user opens a page (link, URL, back); the auth effect of a protected
\* page navigates to /auth when its credential is missing
Visit(p) ==
  /\ p # route
  /\ LET to == IF p \in Protected /\ ~Credential(p) THEN "/auth" ELSE p IN
       /\ route' = to
       /\ IF to = route THEN UNCHANGED <<stLoading, stGuardians, stOp>>
          ELSE IF to = "/settings" THEN SettingsMount
          ELSE IF route = "/settings" THEN SettingsUnmount
          ELSE UNCHANGED <<stLoading, stGuardians, stOp>>
  /\ UNCHANGED <<session, nk_user, authenticated, toastTitle, guardians,
                 restVars>>

\* Auth, the form is submitted: signInWithPassword or signUp; on success the
\* auth client holds the session, nk_user is written and /home is opened;
\* on failure the page shows the error
handleSubmit(ok) ==
  /\ route = "/auth"
  /\ IF ok
     THEN /\ session' = TRUE
          /\ nk_user' = TRUE
          /\ authenticated' = TRUE
          /\ route' = "/home"
     ELSE UNCHANGED authVars
  /\ UNCHANGED <<settingsVars, guardians, restVars>>

\* Settings, Logout confirmed: the API page removes nk_user, the hosted-store
\* page signs out of the auth client; both open /auth
handleLogout ==
  /\ route = "/settings" /\ ~stLoading
  /\ IF emergencyVariant = "api"
     THEN nk_user' = FALSE /\ UNCHANGED session
     ELSE session' = FALSE /\ UNCHANGED nk_user
  /\ authenticated' = FALSE
  /\ route' = "/auth"
  /\ SettingsUnmount
  /\ UNCHANGED <<toastTitle, guardians, restVars>>

\* ---------------------------------------------------------------- Settings
\* a string of n characters that are not white space
Str(n) == [i \in 1..n |-> "x"]

RECURSIVE TrimStart(_)
TrimStart(str) ==
  IF str # <<>> /\ Head(str) = " " THEN TrimStart(Tail(str)) ELSE str

RECURSIVE TrimEnd(_)
TrimEnd(str) ==
  IF str # <<>> /\ str[Len(str)] = " "
  THEN TrimEnd(SubSeq(str, 1, Len(str) - 1)) ELSE str

\* String.prototype.trim, z.string().trim()
Trim(str) == TrimEnd(TrimStart(str))

\* guardianSchema: name trim().min(1).max(100), phone trim().min(10).max(20)
NameMin  == 1
NameMax  == 100
PhoneMin == 10
PhoneMax == 20

\* guardianSchema.safeParse({ name, phone }).success
safeParse(name, phone) ==
  /\ Len(Trim(name)) >= NameMin /\ Len(Trim(name)) <= NameMax
  /\ Len(Trim(phone)) >= PhoneMin /\ Len(Trim(phone)) <= PhoneMax

\* what the user types into the form's two inputs
Names ==
  {<<>>, <<" ", " ">>, Str(1), <<" ">> \o Str(100) \o <<" ">>, Str(101)}

Phones ==
  {Str(9), <<" ">> \o Str(9), Str(10), <<" ">> \o Str(20) \o <<" ">>, Str(21)}

\* fetchGuardians, the read: the rows, or a failure
Settings_fetchGuardians_store(ok) ==
  /\ stOp.kind = "fetchGuardians" /\ stOp.pc = "store"
  /\ stOp' = [stOp EXCEPT !.pc = "resolve", !.ok = ok,
                          !.seen = IF ok THEN guardians ELSE 0]
  /\ UNCHANGED <<stLoading, stGuardians, toastTitle, authVars, guardians,
                 restVars>>

\* fetchGuardians after its await: setGuardians(data) when there is data,
\* setLoading(false) in either case
Settings_fetchGuardians_resolve ==
  /\ stOp.kind = "fetchGuardians" /\ stOp.pc = "resolve"
  /\ stOp' = NoOp
  /\ IF stOp.live
     THEN /\ stLoading' = FALSE
          /\ stGuardians' = IF stOp.ok THEN stOp.seen ELSE stGuardians
     ELSE UNCHANGED <<stLoading, stGuardians>>
  /\ UNCHANGED <<toastTitle, authVars, guardians, restVars>>

\* Add Guardian clicked with name and phone in the form: a failed validation
\* shows its toast and returns; otherwise the insert is sent
Settings_handleAddGuardian(name, phone) ==
  /\ route = "/settings" /\ ~stLoading
  /\ stOp = NoOp
  /\ guardians < MaxGuardians
  /\ IF ~safeParse(name, phone)
     THEN /\ toastTitle' = "Validation Error"
          /\ UNCHANGED stOp
     ELSE /\ stOp' = [kind |-> "handleAddGuardian", pc |-> "store", ok |-> TRUE,
                      seen |-> stGuardians, live |-> TRUE,
                      synced |-> (stGuardians = guardians)]
          /\ UNCHANGED toastTitle
  /\ UNCHANGED <<stLoading, stGuardians, authVars, guardians, restVars>>

\* handleAddGuardian, the insert: a row is added, or the store fails
Settings_handleAddGuardian_store(ok) ==
  /\ stOp.kind = "handleAddGuardian" /\ stOp.pc = "store"
  /\ stOp' = [stOp EXCEPT !.pc = "resolve", !.ok = ok]
  /\ guardians' = IF ok THEN guardians + 1 ELSE guardians
  /\ UNCHANGED <<stLoading, stGuardians, toastTitle, authVars, restVars>>

\* handleAddGuardian after its await: setGuardians([...guardians, data]) and
\* the "Guardian Added" toast, or the catch block's "Error" toast
Settings_handleAddGuardian_resolve ==
  /\ stOp.kind = "handleAddGuardian" /\ stOp.pc = "resolve"
  /\ stOp' = NoOp
  /\ IF stOp.live
     THEN /\ stGuardians' = IF stOp.ok THEN stOp.seen + 1 ELSE stGuardians
          /\ toastTitle' = IF stOp.ok THEN "Guardian Added" ELSE "Error"
     ELSE UNCHANGED <<stGuardians, toastTitle>>
  /\ UNCHANGED <<stLoading, authVars, guardians, restVars>>

\* the hosted-store page, Remove confirmed in the dialog: the delete is sent
Settings_handleDeleteGuardian ==
  /\ route = "/settings" /\ ~stLoading
  /\ emergencyVariant = "supabase"
  /\ stOp = NoOp
  /\ stGuardians > 0
  /\ stOp' = [kind |-> "handleDeleteGuardian", pc |-> "store", ok |-> TRUE,
              seen |-> stGuardians, live |-> TRUE,
              synced |-> (stGuardians = guardians)]
  /\ UNCHANGED <<stLoading, stGuardians, toastTitle, authVars, guardians,
                 restVars>>

\* handleDeleteGuardian, the delete: the row is removed, or the store fails
\* and answers with an error
Settings_handleDeleteGuardian_store(ok) ==
  /\ stOp.kind = "handleDeleteGuardian" /\ stOp.pc = "store"
  /\ stOp' = [stOp EXCEPT !.pc = "resolve", !.ok = ok]
  /\ guardians' = IF ok /\ guardians > 0 THEN guardians - 1 ELSE guardians
  /\ UNCHANGED <<stLoading, stGuardians, toastTitle, authVars, restVars>>

\* handleDeleteGuardian after its await: the answer of the delete is not
\* read, setGuardians(guardians.filter(...)) and the "Guardian Removed" toast
Settings_handleDeleteGuardian_resolve ==
  /\ stOp.kind = "handleDeleteGuardian" /\ stOp.pc = "resolve"
  /\ stOp' = NoOp
  /\ IF stOp.live
     THEN /\ stGuardians' = stOp.seen - 1
          /\ toastTitle' = "Guardian Removed"
     ELSE UNCHANGED <<stGuardians, toastTitle>>
  /\ UNCHANGED <<stLoading, authVars, guardians, restVars>>

\* The account session: sign-in, the pages behind it, the guardians kept on
\* the Settings page, and logout.
SettingsNext ==
  \/ \E p \in Routes : Visit(p)
  \/ \E ok \in BOOLEAN : handleSubmit(ok)
  \/ handleLogout
  \/ \E ok \in BOOLEAN : Settings_fetchGuardians_store(ok)
  \/ Settings_fetchGuardians_resolve
  \/ \E name \in Names : \E phone \in Phones :
       Settings_handleAddGuardian(name, phone)
  \/ \E ok \in BOOLEAN : Settings_handleAddGuardian_store(ok)
  \/ Settings_handleAddGuardian_resolve
  \/ Settings_handleDeleteGuardian
  \/ \E ok \in BOOLEAN : Settings_handleDeleteGuardian_store(ok)
  \/ Settings_handleDeleteGuardian_resolve

SettingsSpec == Init /\ [][SettingsNext]_vars


\* ------------------------------------------------------------------ claims
\* C1: the store never holds more than one trips row with status = active
\* for the user, whatever the interleaving of startTrip, endTrip and
\* triggerPanic.
C1_AtMostOneActiveTrip == Cardinality(ActiveRows) <= 1

\* C2: triggerPanic sets riskLevel = high and safetyStatus = emergency in the
\* step in which it is invoked: while a triggerPanic of the mounted Home is in
\* flight, the local riskLevel is high.
C2_PanicSetsHighAtOnce ==
  \A o \in InFlight :
    (o.kind = "triggerPanic" /\ Mounted(o)) =>
      (riskLevel = "high" /\ safetyStatus = "emergency")

\* C3: once triggerPanic has set riskLevel = high, a fetchRiskStatus response
\* carrying low or medium that resolves afterwards is discarded: riskLevel
\* stays high and safetyStatus stays emergency.
\* (the fetch was in flight when the panic was invoked)
C3_LateFetchDiscarded ==
  [][\A o \in InFlight :
       (/\ riskSetBy = "triggerPanic" /\ riskLevel = "high"
        /\ Mounted(o) /\ o.prePanic /\ o.resRisk \in {"low", "medium"}
        /\ fetchRiskStatus_resolve(o))
       => (riskLevel' = "high" /\ safetyStatus' = "emergency")]_vars

\* the derivation rule of the specification
DerivedStatus(tripActive, level) ==
  IF level = "high" THEN "emergency"
  ELSE IF level = "medium" THEN "monitoring"
  ELSE IF tripActive THEN "monitoring" ELSE "safe"

\* C4: in every state of the mounted Home view, safetyStatus is the
\* derivation rule applied to (isTripActive, riskLevel).
C4_StatusIsDerived ==
  view = "home" => safetyStatus = DerivedStatus(isTripActive, riskLevel)

\* C5: when endTrip completes in the mounted Home view, the local state is
\* isTripActive = false, currentTripId = null, riskLevel = low and
\* safetyStatus = safe, whatever riskLevel was before.
C5_EndTripResetsLocalState ==
  [][\A o \in InFlight :
       (Mounted(o) /\ endTrip_resolve(o))
       => (/\ isTripActive' = FALSE
           /\ currentTripId' = NoId
           /\ riskLevel' = "low"
           /\ safetyStatus' = "safe")]_vars

\* C5 witness: endTrip has completed in the mounted Home view for a trip
\* that was ended at risk medium, and the local state is the reset one.
C5_Witness ==
  /\ view = "home" /\ riskSetBy = "endTrip"
  /\ ~isTripActive /\ currentTripId = NoId
  /\ riskLevel = "low" /\ safetyStatus = "safe"
  /\ \E i \in TripIds : trips[i] = [status |-> "completed", end_risk_level |-> "medium"]

\* C6: startTrip is idempotent: while the store holds an active trip of the
\* user, a startTrip creates no trips row, and it leaves a currentTripId that
\* is already set unchanged.
C6_StartTripIdempotent ==
  [][\A o \in InFlight :
       /\ (ActiveRows # {} /\ startTrip_store(o)) => trips' = trips
       /\ (currentTripId # NoId /\ Mounted(o) /\ startTrip_resolve(o))
            => currentTripId' = currentTripId]_vars

\* C7: when triggerPanic completes in the mounted Home view a trip is active
\* locally, riskLevel is high and the persisted risk_status is high with
\* reason "Panic button activated"; and triggerPanic creates no trips row
\* while the store holds an active trip.
C7_PanicPostcondition ==
  [][\A o \in InFlight :
       /\ (Mounted(o) /\ triggerPanic_resolve(o))
            => (/\ isTripActive' /\ currentTripId' # NoId
                /\ riskLevel' = "high"
                /\ risk_status' = [risk_level |-> "high",
                                   reason |-> "Panic button activated"])
       /\ (ActiveRows # {} /\ triggerPanic_storeTrip(o)) => trips' = trips]_vars


\* C8: Return to Dashboard on the emergency view resets the user's persisted
\* risk_status row to low with reason "Emergency resolved" and leaves the
\* trips rows unchanged.
C8_ReturnResetsRisk ==
  [][(/\ risk_status.risk_level # "none"
      /\ \/ handleReturnHome_api
         \/ \E o \in InFlight : handleReturnHome_resolve(o))
     => (/\ risk_status' = [risk_level |-> "low", reason |-> "Emergency resolved"]
         /\ trips' = trips)]_vars

\* The states in which the user is stuck: the persisted risk is high, nothing
\* in flight will lower it, and the Home view takes no click (it is not
\* mounted, or still loading, or about to navigate to the emergency view).
C9_Stuck ==
  /\ emergencyVariant = "api"
  /\ risk_status.risk_level = "high"
  /\ ActiveRows # {}
  /\ ~Interactive
  /\ \A o \in InFlight :
       /\ o.kind \notin {"endTrip", "handleReturnHome"}
       /\ (o.kind = "fetchRiskStatus" /\ o.pc = "selected") => o.resRisk = "high"

\* C9: no reachable state is stuck: the user can always get back to a Home
\* view on which the trip can be ended.
C9_NeverStuck == ~C9_Stuck

\* C9, the reason a stuck state refutes it: no step leaves the stuck states,
\* so from one of them no sequence of actions reaches a Home view that takes
\* the End Trip click, and the trip stays active.
C9_StuckIsClosed == [][C9_Stuck => C9_Stuck']_vars

\* C10: every time the local riskLevel becomes high, the transition to the
\* emergency view follows: a high riskLevel of the mounted Home view stays
\* high until the view is the emergency view.
C10_HighLeadsToEmergency ==
  [][(view = "home" /\ riskLevel = "high")
     => (view' = "emergency" \/ (view' = "home" /\ riskLevel' = "high"))]_vars

\* C11: when endTrip of trip t completes, the store holds row t with
\* status = completed and end_risk_level equal to the riskLevel that was
\* rendered when endTrip was invoked, and the user's persisted risk_status is
\* low; a completed row is never removed or reopened.
C11_EndTripPersists ==
  [][/\ \A o \in InFlight :
          (Mounted(o) /\ endTrip_resolve(o))
          => (/\ trips'[o.cId] = [status |-> "completed", end_risk_level |-> o.cRisk]
              /\ risk_status'.risk_level = "low")
     /\ \A i \in TripIds :
          trips[i].status = "completed" => trips'[i].status = "completed"]_vars

\* C18: when the second store write of endTrip or triggerPanic fails after
\* the first one succeeded, the handler does not complete as a success: its
\* completion does not advance the local state over a store left half
\* written.
C18_SecondFailureNotIgnored ==
  [][\A o \in InFlight :
       (/\ Mounted(o) /\ ~o.e1 /\ o.e2
        /\ (endTrip_resolve(o) \/ triggerPanic_resolve(o)))
       => UNCHANGED <<isTripActive, currentTripId, riskLevel, safetyStatus>>]_vars

\* C19: when a store call of startTrip or endTrip fails, the operation has
\* failed and its completion leaves isTripActive, currentTripId, riskLevel
\* and safetyStatus as they were.
C19_FailedCallKeepsState ==
  [][\A o \in InFlight :
       (/\ Mounted(o) /\ (o.e1 \/ o.e2)
        /\ (startTrip_resolve(o) \/ endTrip_resolve(o)))
       => UNCHANGED <<isTripActive, currentTripId, riskLevel, safetyStatus>>]_vars

\* C12: the simulator, started with a trip active and left to run, issues
\* low, then medium, then high, each SimPeriod time units after the one
\* before, and nothing after high, whatever else renders Home meanwhile.
C12_SimulatorSequence ==
  [][/\ (handleAutoSimulate /\ isAutoSimulating') => riskLevel' = "low"
     /\ (SimTick /\ simulationStep + 1 < Len(Steps))
          => (/\ sinceUpdate = SimPeriod
              /\ <<simLog, riskLevel'>> \in {<<"low", "medium">>, <<"medium", "high">>})
     /\ (SimTick /\ simLog = "high")
          => (riskLevel' = riskLevel /\ ~isAutoSimulating')]_vars

\* C13: stopSimulation leaves riskLevel and safetyStatus as they are and
\* clears the interval, and after it the simulator issues nothing: while the
\* stop is the last thing the simulator did, no interval is set and none fires.
C13_StopKeepsRisk ==
  [][/\ stopSimulation
          => (/\ riskLevel' = riskLevel /\ safetyStatus' = safetyStatus
              /\ ~isAutoSimulating' /\ intervalLeft' = NoInterval)
     /\ simLog = "stopped"
          => (intervalLeft = NoInterval /\ ~isAutoSimulating /\ ~SimTick)]_vars

\* C13 witness: the simulation was stopped after it had issued medium, and
\* riskLevel is still medium.
C13_Witness ==
  /\ view = "home" /\ simLog = "stopped" /\ ~isAutoSimulating
  /\ riskLevel = "medium" /\ safetyStatus = "monitoring"
  /\ riskSetBy = "handleDemoRiskChange"

\* C14: the simulator stops with the trip and with the view: when startTrip
\* makes a trip active the simulator is not running (starting a trip never
\* resumes a simulation), and no interval outlives the Home view.
C14_StopsWithTrip ==
  [][/\ \A o \in InFlight :
          (~isTripActive /\ startTrip_resolve(o) /\ isTripActive')
          => (~isAutoSimulating' /\ intervalLeft' = NoInterval)
     /\ view' # "home" => intervalLeft' = NoInterval]_vars

\* C15: handleAutoSimulate without an active trip changes nothing: riskLevel,
\* safetyStatus, isAutoSimulating and simulationStep stay, no interval is set.
C15_StartWithoutTripIsNoOp ==
  [][(handleAutoSimulate /\ ~isTripActive)
       => (/\ UNCHANGED <<riskLevel, safetyStatus, isAutoSimulating, simulationStep>>
           /\ intervalLeft' = NoInterval)]_vars

\* C15 witness: a start was refused on a mounted panel without a trip.
C15_Witness ==
  /\ view = "home" /\ isDemoMode /\ ~loading /\ ~isTripActive
  /\ simLog = "ignored" /\ ~isAutoSimulating /\ intervalLeft = NoInterval

\* C16: a risk change delivered to handleDemoRiskChange (by a risk button,
\* by handleAutoSimulate or by the interval) sets riskLevel to the level and
\* safetyStatus to the derivation rule's value for (isTripActive, level); the
\* handler's derivation is the rule for every level and both values of
\* isTripActive.  (A high level from a risk button leaves Home in the same
\* step; the interval delivers high with Home still mounted.)
C16_RiskUpdateDerives ==
  [][/\ \A l \in RiskLevel, t \in BOOLEAN : DemoStatus(l, t) = DerivedStatus(t, l)
     /\ \A l \in RiskLevel :
          (handleDemoRiskChange(l) /\ ~NavigatesOn(l))
          => (riskLevel' = l /\ safetyStatus' = DerivedStatus(isTripActive, l))
     /\ (handleAutoSimulate /\ isAutoSimulating')
          => (riskLevel' = "low" /\ safetyStatus' = DerivedStatus(isTripActive, "low"))
     /\ (SimTick /\ simulationStep' # 0)
          => (/\ riskLevel' = Steps[simulationStep' + 1]
              /\ safetyStatus' = DerivedStatus(isTripActive, riskLevel'))]_vars

\* C16 witness: the interval has delivered high to the mounted Home.
C16_Witness ==
  /\ view = "home" /\ isTripActive /\ simLog = "high"
  /\ riskSetBy = "handleDemoRiskChange"
  /\ riskLevel = "high" /\ safetyStatus = "emergency"

\* C17: while the user has no guardians, the Emergency page shows its loading
\* screen only as long as a fetchGuardians call is in flight, and otherwise
\* shows "No guardians configured" (never a contact list, and the page has
\* no error rendering): a failed call ends the loading as well.
C17_NoGuardiansShown ==
  (view = "emergency" /\ guardians = 0) =>
     /\ EmergencyShows \in {"loading", "No guardians configured"}
     /\ emLoading => guardianFetches # EmptyBag

\* C17 witness: after a panic was persisted, the Emergency page of a user
\* without guardians has had every fetch answered and shows the empty text.
C17_Witness ==
  /\ view = "emergency" /\ guardians = 0
  /\ risk_status.risk_level = "high"
  /\ guardianFetches = EmptyBag
  /\ EmergencyShows = "No guardians configured"


\* C28: in every state of the Home controller isTripActive is true exactly
\* when currentTripId is not null (the setState calls of one continuation
\* are rendered together, so startTrip, endTrip, triggerPanic and
\* checkActiveTrip change the two in one step).
C28_ActiveIffTripId == isTripActive <=> (currentTripId # NoId)

\* C28 witness: the mounted Home holds the second trip after the first one
\* was ended: both values were set, reset and set again.
C28_Witness ==
  /\ view = "home" /\ isTripActive /\ currentTripId = 2
  /\ trips[1].status = "completed"


\* C27: a risk change issued by the demo panel (a risk button,
\* handleAutoSimulate or the interval) leaves the trips rows and the
\* risk_status row as they are, and in the Home that stays mounted it changes
\* riskLevel and safetyStatus only: isTripActive, currentTripId, loading and
\* the dialogs keep their values.  (A high level from a risk button leaves
\* Home in the same step; the trip it showed is still active in the store.)
C27_DemoIsLocal ==
  [][((\E l \in RiskLevel : handleDemoRiskChange(l))
        \/ (handleAutoSimulate /\ isTripActive)
        \/ (SimTick /\ simulationStep' # 0))
     => /\ trips' = trips /\ risk_status' = risk_status
        /\ ActiveRows' = ActiveRows
        /\ view' = "home" =>
             /\ isTripActive' = isTripActive /\ currentTripId' = currentTripId
             /\ <<loading, endTripDialogOpen, panicDialogOpen, isDemoMode>>'
                  = <<loading, endTripDialogOpen, panicDialogOpen, isDemoMode>>]_vars

\* C27 witness: the interval of the demo panel has set the local level to
\* medium on a running trip, and the store holds the active trip and still no
\* risk_status row.
C27_Witness ==
  /\ view = "home" /\ isDemoMode /\ isTripActive /\ currentTripId # NoId
  /\ riskSetBy = "handleDemoRiskChange" /\ riskLevel = "medium"
  /\ simLog = "medium"
  /\ risk_status = NoRisk
  /\ ActiveRows # {}


C25_PanicUpserts ==
  [][\A o \in InFlight :
       (triggerPanic_storeRisk(o) /\ o.resRisk = "none")
       => (risk_status' = NoRisk \/ risk_status'.risk_level = "high")]_vars


\* the Home that has finished loading and has not been used since it mounted:
\* every fetchRiskStatus and checkActiveTrip of this Home has completed
LoadSettled ==
  /\ view = "home" /\ ~loading /\ ~userActed
  /\ \A o \in InFlight :
       (o.kind \in {"fetchRiskStatus", "checkActiveTrip"}) => ~o.live

\* C24: once the load-time checkActiveTrip and fetchRiskStatus have both
\* completed and the user has not acted, the local copy matches the store:
\* isTripActive is true exactly when the store holds an active trip,
\* currentTripId is the id of an active trip then, and riskLevel is the
\* persisted risk_level (low when the user has no risk_status row).
C24_LoadReconciles ==
  LoadSettled =>
    /\ isTripActive <=> (ActiveRows # {})
    /\ isTripActive => currentTripId \in ActiveRows
    /\ riskLevel = IF risk_status = NoRisk THEN "low" ELSE risk_status.risk_level

\* C21: when the call to the risk endpoint fails, the failure is swallowed:
\* the step shows no error to the user (error, permissionDenied and what the
\* map renders stay as they were), the risk result held and its badge stay
\* as they were, and the Home controller's riskLevel and safetyStatus are
\* not touched.
C21_RiskFailureSwallowed ==
  [][\A q \in riskRequests :
       calculateRisk_reject(q) =>
         /\ error' = error /\ permissionDenied' = permissionDenied
         /\ MapShows' = MapShows
         /\ risk' = risk /\ RiskBadge' = RiskBadge
         /\ riskLevel' = riskLevel /\ safetyStatus' = safetyStatus]_vars

\* C21 witness: a first call has answered MEDIUM, the call for the second
\* position has failed, and the map still shows the MEDIUM badge, no error.
C21_Witness ==
  /\ positions = 2 /\ riskRequests = {}
  /\ riskFrom = 1 /\ RiskBadge = "MEDIUM"
  /\ error = "none"

\* C30: the risk result the LocationMap holds is the response to the most
\* recent position update: a response to an older position update than the
\* one whose response is held does not replace the result, and no response
\* is applied once tracking has stopped.
C30_LatestResponseShown ==
  [][\A q \in riskRequests : \A r \in RiskResult :
       (calculateRisk_resolve(q, r) /\ (q < riskFrom \/ ~isTracking))
         => (risk' = risk /\ riskFrom' = riskFrom)]_vars

\* C22: location tracking exists only while the user has an active trip: in
\* every state, the emergency view included, a LocationMap that is tracking
\* implies a trips row with status = active for the user.
C22_TrackingOnlyOnTrip == TrackingOn => ActiveRows # {}

\* C23: the protected pages (home, emergency, history, settings, onboarding)
\* are shown only while authenticated: before a sign-in, and after a logout
\* until the next successful sign-in, the router shows none of them (a visit
\* ends on /auth).
C23_ProtectedNeedsAuth == route \in Protected => authenticated

\* C29: every completed add or delete keeps the Settings list equal to the
\* store's guardians rows (an add or delete begun with the list equal to the
\* rows ends with the list equal to the rows, whether the store accepted the
\* write or failed), and an add rejected by the validation changes neither
\* the list nor the rows and sends nothing.
C29_ListEqualsStore ==
  /\ [][((Settings_handleAddGuardian_resolve
             \/ Settings_handleDeleteGuardian_resolve)
          /\ stOp.live /\ stOp.synced)
        => stGuardians' = guardians']_vars
  /\ [][\A name \in Names : \A phone \in Phones :
         (Settings_handleAddGuardian(name, phone) /\ ~safeParse(name, phone))
           => (stGuardians' = stGuardians /\ guardians' = guardians
               /\ stOp' = NoOp)]_vars


====
